---- MODULE Spec2Model ----
(***************************************************************************)
(* Model of api_sw.py: the page fetcher with host fallback, the catalog    *)
(* crawler, and the process-wide catalog cache with its optional durable   *)
(* snapshot.  Request handlers run in worker threads, so every read and    *)
(* write of the module globals CATALOG_CACHE / CATALOG_CACHE_TS, every     *)
(* file access and every HTTP GET is a separate step of the calling        *)
(* thread.  Program counters are named after the source line they stand    *)
(* at.                                                                     *)
(***************************************************************************)
EXTENDS Integers, Sequences, FiniteSets, TLC

\* ------------------------------------------------------------- bounds
\* wall clock values time.time() can return: 1 .. MaxTime
MaxTime == 2
\* anchors on one listing page
MaxPageLen == 2
\* items in the snapshot file found at start-up
MaxDiskLen == 2
\* largest start_page and max_pages a /catalog request passes
MaxStartPage == 2
MaxAdhocPages == 2
\* the configuration values the environment sets, scaled down: the cache
\* time-to-live in clock ticks, the page ceiling of a refresh, the number of
\* candidate hosts
TtlTicks == 1
PageCeiling == 2
MaxHosts == 2
\* items in a list handed to pick_best
MaxPickLen == 3
\* raw items in the SUB track of a page
MaxRawLen == 1
\* largest `tries` handed to retry
MaxTries == 3

\* worker threads of the server
Threads == {"t1", "t2"}

\* ------------------------------------------------------------- values
\* line 98: tries=3
DefaultTries == 3
None == "None"
\* exceptions http_get can raise
Errors == {"timeout", "http5xx"}
\* the default candidate hosts of lines 34-36, in order
DefaultHosts == <<"www3", "www2", "www">>
\* strings are sequences of characters
Chars == {"a", " "}
RawSlugs == {<<c>> : c \in Chars} \cup {<<c, d>> : c \in Chars, d \in Chars}
Titles == {"x", "y"}
\* what CAT_ITEM_RE.findall yields for one anchor, (slug, title) as written:
\* a slug, the same slug with a trailing blank and another title, a blank
\* slug, a second slug
RawPairs ==
  {<<(<<"a">>), "x">>, <<(<<"a", " ">>), "y">>, <<(<<" ">>), "x">>, <<(<<"a", "a">>), "x">>}

SeqsUpTo(S, n) == UNION {[1 .. k -> S] : k \in 0 .. n}

\* the bodies a listing page can have, as the anchors they hold
Bodies == SeqsUpTo(RawPairs, MaxPageLen)
\* a site whose anchors are written without stray blanks and share one title
PlainBodies == SeqsUpTo({<<s, "x">> : s \in {<<"a">>, <<"a", "a">>}}, MaxPageLen)

\* ------------------------------------------------------ pure functions
RECURSIVE LStrip(_)
LStrip(s) == IF s # <<>> /\ Head(s) = " " THEN LStrip(Tail(s)) ELSE s

RECURSIVE RStrip(_)
RStrip(s) ==
  IF s # <<>> /\ s[Len(s)] = " " THEN RStrip(SubSeq(s, 1, Len(s) - 1)) ELSE s

\* str.strip()
Strip(s) == RStrip(LStrip(s))

\* lines 195-199: the (slug, title) pairs of a page body
ExtractItems(body) == [i \in 1 .. Len(body) |-> <<Strip(body[i][1]), body[i][2]>>]

Ids(entries) == {entries[i].id : i \in 1 .. Len(entries)}

\* AddItems without the `slug not in seen` test of line 220
RECURSIVE AddItemsNoSeen(_, _)
AddItemsNoSeen(out, items) ==
  IF items = <<>> THEN out
  ELSE IF Head(items)[1] # <<>>
       THEN AddItemsNoSeen(Append(out, [id |-> Head(items)[1], title |-> Head(items)[2]]),
                           Tail(items))
       ELSE AddItemsNoSeen(out, Tail(items))

\* lines 219-223: one pass of the inner loop over a page's items
RECURSIVE AddItems(_, _)
AddItems(out, items) ==
  IF items = <<>> THEN out
  ELSE LET slug == Head(items)[1]
           title == Head(items)[2]
       IN IF slug # <<>> /\ slug \notin Ids(out)
          THEN AddItems(Append(out, [id |-> slug, title |-> title]), Tail(items))
          ELSE AddItems(out, Tail(items))

\* ------------------------------------------------ episode page helpers
Digits == {"0", "1"}
\* str.isdigit(): non-empty and all digits
IsDigit(s) == s # <<>> /\ \A i \in 1 .. Len(s) : s[i] \in Digits

LowerChar(c) == CASE c = "S" -> "s" [] c = "W" -> "w" [] c = "M" -> "m" [] OTHER -> c
\* str.lower()
Lower(s) == [i \in 1 .. Len(s) |-> LowerChar(s[i])]

RECURSIVE Unslash(_)
\* str.replace("\\/", "/")
Unslash(s) ==
  IF s = <<>> THEN <<>>
  ELSE IF Len(s) >= 2 /\ s[1] = "\\" /\ s[2] = "/"
       THEN <<"/">> \o Unslash(SubSeq(s, 3, Len(s)))
       ELSE <<Head(s)>> \o Unslash(Tail(s))

\* A JSON value under a key of a raw video item: the key is missing, null, or
\* a string.  dict.get gives None for the first two.
JMissing == [k |-> "missing", s |-> <<>>]
JNull == [k |-> "null", s |-> <<>>]
JStr(s) == [k |-> "str", s |-> s]
\* Python's None among the values of a VideoItem
PyNone == [k |-> "null", s |-> <<>>]
Get(v) == IF v.k = "str" THEN v ELSE PyNone
\* truthiness of an Optional[str]
Truthy(v) == v.k = "str" /\ v.s # <<>>
\* (x or "")
OrEmpty(v) == IF Truthy(v) THEN v.s ELSE <<>>
\* (s or None)
OrNone(s) == IF s # <<>> THEN JStr(s) ELSE PyNone

\* lines 156-162: the VideoItem of one raw item
video_item(track, it) ==
  [track |-> track,
   server |-> Lower(OrEmpty(Get(it.server))),
   title |-> Get(it.title),
   code |-> OrNone(Unslash(OrEmpty(Get(it.code)))),
   url |-> OrNone(Unslash(OrEmpty(Get(it.url))))]

\* lines 149-163; videos[track] is [islist, items]
flatten_videos(videos) ==
  LET of(track) ==
        IF videos[track].islist
        THEN [i \in 1 .. Len(videos[track].items) |-> video_item(track, videos[track].items[i])]
        ELSE <<>>
  IN of("SUB") \o of("LAT")

\* line 165
PREFERRED ==
  << <<"s", "w">>, <<"s", "t", "r", "e", "a", "m", "w", "i", "s", "h">>, <<"s", "b">>,
     <<"s", "t", "r", "e", "a", "m", "s", "b">>, <<"s", "b", "p", "l", "a", "y">>,
     <<"s", "t", "a", "p", "e">>, <<"o", "k", "r", "u">>, <<"u", "q", "l", "o", "a", "d">>,
     <<"m", "e", "g", "a">> >>

\* lines 168-173 with a host outside the preference list ranked first
pref_index_UnknownFirst(server) ==
  LET s == Lower(server)
  IN IF \E i \in 1 .. Len(PREFERRED) : PREFERRED[i] = s
     THEN (CHOOSE i \in 1 .. Len(PREFERRED) : PREFERRED[i] = s) - 1
     ELSE 0 - 1

\* lines 168-173 (enumerate counts from 0)
pref_index(server) ==
  LET s == Lower(server)
  IN IF \E i \in 1 .. Len(PREFERRED) : PREFERRED[i] = s
     THEN (CHOOSE i \in 1 .. Len(PREFERRED) : PREFERRED[i] = s) - 1
     ELSE Len(PREFERRED) + 10

\* the sort key of line 174
sort_key(it) == <<pref_index(it.server), IF Truthy(it.code) THEN 0 ELSE 1>>
KeyLess(a, b) == a[1] < b[1] \/ (a[1] = b[1] /\ a[2] < b[2])

RECURSIVE InsertByKey(_, _)
\* x put into the sorted list after every element whose key is not greater:
\* sorted() is stable
InsertByKey(sorted, x) ==
  IF sorted = <<>> THEN <<x>>
  ELSE IF KeyLess(sort_key(x), sort_key(Head(sorted)))
       THEN <<x>> \o sorted
       ELSE <<Head(sorted)>> \o InsertByKey(Tail(sorted), x)

RECURSIVE SortedFrom(_, _)
SortedFrom(sorted, items) ==
  IF items = <<>> THEN sorted
  ELSE SortedFrom(InsertByKey(sorted, Head(items)), Tail(items))

\* line 174: sorted(items, key=...)
items_sorted(items) == SortedFrom(<<>>, items)

\* lines 174-175: the first element of the stable sort, or None
pick_best(items) ==
  LET sorted == items_sorted(items)
  IN IF sorted # <<>> THEN sorted[1] ELSE PyNone

\* what an episode GET can answer with: the `var videos = {...};` of the page
\* (absent, unparsable, or an object) and the three ids of extract_ids
NoTrack == [islist |-> FALSE, items |-> <<>>]
Track(items) == [islist |-> TRUE, items |-> items]
RawVideo(server, code) == [server |-> server, title |-> JMissing, code |-> code, url |-> JNull]
NoIds == [anime_id |-> None, episode_id |-> None, episode_number |-> None]
EpisodePage(kind, sub, lat) == [kind |-> kind, videos |-> [SUB |-> sub, LAT |-> lat], ids |-> NoIds]
EpisodePages ==
  { EpisodePage("absent", NoTrack, NoTrack),
    EpisodePage("invalid", NoTrack, NoTrack),
    EpisodePage("ok", NoTrack, NoTrack),
    EpisodePage("ok", Track(<<RawVideo(JStr(<<"M">>), JNull),
                              RawVideo(JStr(<<"S", "W">>), JStr(<<"a", "\\", "/">>))>>),
                      Track(<<RawVideo(JNull, JStr(<<>>))>>)) }

\* ------------------------------------------------------- snapshot file
Slugs == {Strip(s) : s \in RawSlugs} \ {<<>>}
Entries == {[id |-> s, title |-> t] : s \in Slugs, t \in Titles}

\* A JSON value of the file: an object with the keys `keys`, or a value that
\* is not an object.
JsonObject(id, title) == [obj |-> TRUE, keys |-> {"id", "title"}, id |-> id, title |-> title]
JsonItems ==
  {JsonObject(<<"a">>, t) : t \in Titles}
  \cup {[obj |-> TRUE, keys |-> {"id"}, id |-> <<"a">>, title |-> ""],
        [obj |-> FALSE, keys |-> {}, id |-> <<>>, title |-> ""]}

\* json.dump(items, f) of line 253
JsonDump(items) == [i \in 1 .. Len(items) |-> JsonObject(items[i].id, items[i].title)]

\* the file: absent, not parseable, a JSON value that is no list, or a list
FileStates ==
  {[state |-> "absent", data |-> <<>>], [state |-> "corrupt", data |-> <<>>],
   [state |-> "notlist", data |-> <<>>]}
  \cup {[state |-> "list", data |-> d] : d \in SeqsUpTo(JsonItems, MaxDiskLen)}

\* lines 236-246
load_catalog_from_disk(path_set, file) ==
  IF ~path_set \/ file.state # "list" THEN <<>>
  ELSE LET ok(x) == x.obj /\ "id" \in x.keys /\ "title" \in x.keys
           kept == SelectSeq(file.data, ok)
       IN [i \in 1 .. Len(kept) |-> [id |-> kept[i].id, title |-> kept[i].title]]

\* _save_catalog_to_disk with a path set: open() can fail (file untouched),
\* json.dump can fail after open() truncated the file, or the whole list is
\* written.  No failure is raised to the caller.
SaveOutcomes == {"written", "open_failed", "dump_failed"}

\* lines 248-255 opening the file for appending: the new items follow the old
save_catalog_Append(file, items, outcome) ==
  CASE outcome = "written" ->
         [state |-> "list",
          data |-> (IF file.state = "list" THEN file.data ELSE <<>>) \o JsonDump(items)]
    [] outcome = "dump_failed" -> [state |-> "corrupt", data |-> <<>>]
    [] OTHER -> file

save_catalog_to_disk(file, items, outcome) ==
  CASE outcome = "written" -> [state |-> "list", data |-> JsonDump(items)]
    [] outcome = "dump_failed" -> [state |-> "corrupt", data |-> <<>>]
    [] OTHER -> file

\* lru_cache(maxsize=1) of line 276 before the first call that returns
NoMemo == [cached |-> FALSE, value |-> {}]

\* the catalog the file stores after a write of `items` with that outcome,
\* given the one it stored before
Stored(before, items, outcome) ==
  CASE outcome = "written" -> items
    [] outcome = "dump_failed" -> None
    [] OTHER -> before

\* ------------------------------------------------------------ state
VARIABLES
  BASE_CANDIDATES,   \* lines 31-37: the candidate hosts, in order
  CATALOG_JSON_PATH, \* line 234: TRUE iff a snapshot path is configured
  CATALOG_MAX_PAGES, \* line 270: the page ceiling of a refresh
  workers,           \* the threads the server hands requests to
  env,               \* what the surroundings can do: the bodies the site answers
                     \* a listing GET and an episode GET with, what the
                     \* AnimeFLV client returns (infos), the errors a GET or
                     \* the client raises, the outcomes
                     \* of writing the snapshot; whether hist records the
                     \* pages served to a crawl (logging) and whether
                     \* `persisted` is kept (audit)
  CATALOG_CACHE,     \* line 231: the in-memory entries
  CATALOG_CACHE_TS,  \* line 232: last_refreshed_at
  disk,              \* the snapshot file
  slug_set_cache,    \* line 276: what lru_cache holds for get_slug_set, if anything
  persisted,         \* kept when env.audit: the catalog the last complete
                     \* write of the snapshot file stored, or None
  clock,             \* what time.time() returns now
  pc,                \* per thread: the source line it stands at
  loc,               \* per thread: the locals of the running call
  hist               \* per thread: what the running call has done so far

Config == <<BASE_CANDIDATES, CATALOG_JSON_PATH, CATALOG_MAX_PAGES, workers, env>>
Memo == <<slug_set_cache, persisted>>
Globals == <<CATALOG_CACHE, CATALOG_CACHE_TS, disk, clock, Memo>>
vars == <<Config, Globals, pc, loc, hist>>

\* line 233
CATALOG_TTL_SEC == TtlTicks

IdleLoc ==
  [op |-> None, force |-> FALSE, now |-> 0, page |-> 0, stop |-> 0,
   out |-> <<>>, host |-> 0, last_err |-> None,
   disk_items |-> <<>>, ret |-> <<>>, status |-> 0,
   req |-> None, page_url |-> None, ids |-> None, tries |-> 0, attempt |-> 0]

IdleHist ==
  [cache0 |-> <<>>, ts0 |-> 0, disk0 |-> [state |-> "absent", data |-> <<>>],
   quiet |-> TRUE, wrote |-> {}, rdDisk |-> FALSE, gets |-> 0,
   path |-> None, tried |-> <<>>, errs |-> <<>>, saved |-> None, log |-> <<>>,
   trace |-> <<>>]

\* the process right after import: empty cache, timestamp 0.0 (lines 231-232)
Started ==
  /\ CATALOG_CACHE = <<>>
  /\ CATALOG_CACHE_TS = 0
  /\ slug_set_cache = NoMemo
  /\ persisted = None
  /\ clock = 1
  /\ pc = [p \in Threads |-> "idle"]
  /\ loc = [p \in Threads |-> IdleLoc]
  /\ hist = [p \in Threads |-> IdleHist]

Hosts(n) == SubSeq(DefaultHosts, 1, n)

\* one worker thread, any snapshot file, a site of plain pages whose hosts
\* fail in one way
Init ==
  /\ Started
  /\ workers = {"t1"}
  /\ BASE_CANDIDATES = Hosts(MaxHosts)
  /\ CATALOG_MAX_PAGES = PageCeiling
  /\ env = [bodies |-> PlainBodies, pages |-> {}, infos |-> {}, errors |-> {"timeout"},
            saves |-> SaveOutcomes, logging |-> FALSE, audit |-> FALSE]
  /\ CATALOG_JSON_PATH \in BOOLEAN
  /\ disk \in FileStates
  /\ (~CATALOG_JSON_PATH => disk.state = "absent")

\* ------------------------------------------------------- bookkeeping
SetPc(p, l) == pc' = [pc EXCEPT ![p] = l]
SetLoc(p, r) == loc' = [loc EXCEPT ![p] = r]
SetHist(p, r) == hist' = [hist EXCEPT ![p] = r]

\* The record of a call that starts now.  A call is quiet while no other call
\* is in the system; a quiet call remembers the cache, the timestamp and the
\* file as they were when it started.
Unquiet(h) ==
  [h EXCEPT !.quiet = FALSE, !.cache0 = IdleHist.cache0, !.ts0 = IdleHist.ts0,
            !.disk0 = IdleHist.disk0]

StartHist(p) ==
  [q \in Threads |->
     IF q = p
     THEN IF \A r \in Threads \ {p} : pc[r] = "idle"
          THEN [IdleHist EXCEPT !.cache0 = CATALOG_CACHE, !.ts0 = CATALOG_CACHE_TS,
                                !.disk0 = disk]
          ELSE Unquiet(IdleHist)
     ELSE IF pc[q] = "idle" THEN hist[q] ELSE Unquiet(hist[q])]

\* the handler returns `raw` to its client: the frames of the call are gone
Returned(l, raw) ==
  [IdleLoc EXCEPT !.op = l.op, !.force = l.force, !.now = l.now, !.out = l.out,
                  !.req = l.req, !.ret = raw, !.status = 200]

\* lines 389-390 / 397-398: any exception becomes a 502 carrying its text
Raised(l, err) ==
  [IdleLoc EXCEPT !.op = l.op, !.force = l.force, !.now = l.now, !.req = l.req,
                  !.last_err = err, !.status = 502]

\* where get_cached_catalog returns to: line 278 of get_slug_set, line 283 of
\* fuzzy_resolve_title, or a handler that answers with the list
ReturnTo(l) ==
  CASE l.op = "get_slug_set" -> "L278"
    [] l.op = "resolve" -> "L283"
    [] OTHER -> "done"

\* time.time() moves on
Tick ==
  /\ clock < MaxTime
  /\ clock' = clock + 1
  /\ UNCHANGED <<Config, Memo, CATALOG_CACHE, CATALOG_CACHE_TS, disk, pc, loc, hist>>

\* ------------------------------------------------------- the handlers
\* GET /catalog (lines 373-390)
Catalog(p, refresh, start_page, max_pages) ==
  /\ p \in workers
  /\ pc[p] = "idle"
  /\ IF max_pages > 0
     THEN /\ SetPc(p, "L214")
          /\ SetLoc(p, [IdleLoc EXCEPT !.op = "adhoc", !.page = start_page,
                                       !.stop = start_page + max_pages,
                                       !.req = [start_page |-> start_page,
                                                max_pages |-> max_pages]])
     ELSE /\ SetPc(p, "L259")
          /\ SetLoc(p, [IdleLoc EXCEPT !.op = "list_catalog", !.force = refresh])
  /\ hist' = StartHist(p)
  /\ UNCHANGED <<Config, Globals>>

list_catalog(p) ==
  \E refresh \in BOOLEAN, start_page \in 1 .. MaxStartPage, max_pages \in 0 .. MaxAdhocPages :
    Catalog(p, refresh, start_page, max_pages)

\* GET /slugs (lines 392-398)
list_slugs(p) ==
  /\ p \in workers
  /\ pc[p] = "idle"
  /\ SetPc(p, "L259")
  /\ SetLoc(p, [IdleLoc EXCEPT !.op = "list_slugs"])
  /\ hist' = StartHist(p)
  /\ UNCHANGED <<Config, Globals>>

\* the bodies sent to the client (lines 388 and 396)
Response(op, raw) ==
  IF op = "list_slugs" THEN [i \in 1 .. Len(raw) |-> raw[i].id]
  ELSE [i \in 1 .. Len(raw) |->
          [id |-> raw[i].id, title |-> raw[i].title, poster |-> None, synopsis |-> None]]

\* HTTPException(status_code=...) raised by a handler
HttpError(l, code, detail) ==
  [IdleLoc EXCEPT !.op = l.op, !.req = l.req, !.last_err = detail, !.status = code]

\* GET /anime/{anime_id}/episode/{episode_id}/videos, lines 332-345: a numeric
\* anime_id is refused before anything is fetched; otherwise fetch_episode_html
\* starts with the first candidate host (lines 117-118)
EpisodeVideos(p, anime_id, only, prefer_best) ==
  /\ p \in workers
  /\ pc[p] = "idle"
  /\ LET l == [IdleLoc EXCEPT !.op = "get_episode_videos",
                              !.req = [anime_id |-> anime_id, only |-> only,
                                       prefer_best |-> prefer_best]]
     IN IF IsDigit(anime_id)
        THEN SetPc(p, "failed") /\ SetLoc(p, HttpError(l, 400, "anime_id"))
        ELSE SetPc(p, "L121") /\ SetLoc(p, [l EXCEPT !.host = 1])
  /\ hist' = StartHist(p)
  /\ UNCHANGED <<Config, Globals>>

AnimeIds == {<<"a">>, <<"1">>, <<"1", "a">>}
Onlys == {PyNone, JStr(<<>>), JStr(<<" ", "S", "W">>), JStr(<<"a">>)}

get_episode_videos(p) ==
  \E anime_id \in AnimeIds, only \in Onlys, prefer_best \in BOOLEAN :
    EpisodeVideos(p, anime_id, only, prefer_best)

\* lines 346-370 once the page is there
EpisodeResponse(l, page, url) ==
  IF page.kind = "absent" THEN Raised(l, "no_var_videos")
  ELSE IF page.kind = "invalid" THEN Raised(l, "JSONDecodeError")
  ELSE
    LET items == flatten_videos(page.videos)
        k == Lower(Strip(l.req.only.s))
        kept == IF Truthy(l.req.only) THEN SelectSeq(items, LAMBDA it : it.server = k)
                ELSE items
        best == pick_best(kept)
    IN IF items = <<>> THEN HttpError(l, 502, "no_items")
       ELSE IF kept = <<>> THEN HttpError(l, 404, "only")
       ELSE [IdleLoc EXCEPT !.op = l.op, !.req = l.req, !.status = 200,
                            !.page_url = url, !.ids = page.ids,
                            !.ret = IF l.req.prefer_best THEN <<best>> ELSE kept]

\* line 121, the GET answers 2xx: line 122, then the rest of the handler
EpisodeOk(p) ==
  /\ pc[p] = "L121"
  /\ \E page \in env.pages :
       LET r == EpisodeResponse(loc[p], page, BASE_CANDIDATES[loc[p].host])
       IN /\ SetPc(p, IF r.status = 200 THEN "done" ELSE "failed")
          /\ SetLoc(p, [r EXCEPT !.req = loc[p].req])
  /\ SetHist(p, [hist[p] EXCEPT !.gets = @ + 1,
                                !.tried = Append(@, BASE_CANDIDATES[loc[p].host])])
  /\ UNCHANGED <<Config, Globals>>

\* lines 123-126 giving up on the first host that fails
EpisodeFail_GiveUp(p) ==
  /\ pc[p] = "L121"
  /\ \E e \in env.errors :
       /\ SetPc(p, "failed") /\ SetLoc(p, Raised(loc[p], e))
       /\ SetHist(p, [hist[p] EXCEPT
                        !.gets = @ + 1,
                        !.tried = Append(@, BASE_CANDIDATES[loc[p].host]),
                        !.errs = Append(@, e)])
  /\ UNCHANGED <<Config, Globals>>

\* line 121, the GET raises: lines 123-126, and lines 369-370 after the last
\* host
EpisodeFail(p) ==
  /\ pc[p] = "L121"
  /\ \E e \in env.errors :
       /\ IF loc[p].host < Len(BASE_CANDIDATES)
          THEN SetPc(p, "L121") /\ SetLoc(p, [loc[p] EXCEPT !.host = @ + 1, !.last_err = e])
          ELSE SetPc(p, "failed") /\ SetLoc(p, Raised(loc[p], e))
       /\ SetHist(p, [hist[p] EXCEPT
                        !.gets = @ + 1,
                        !.tried = Append(@, BASE_CANDIDATES[loc[p].host]),
                        !.errs = Append(@, e)])
  /\ UNCHANGED <<Config, Globals>>

\* ---------------------------------------------- retry and get_episodes
\* what api.get_anime_info returns: the episodes of a series, or none
Episode(id, title) == [id |-> id, title |-> title]
AnimeInfos ==
  {[episodes |-> None], [episodes |-> <<>>],
   [episodes |-> <<Episode(2, PyNone), Episode(1, JStr(<<"t">>)), Episode(2, JStr(<<>>))>>]}

RECURSIVE InsertById(_, _)
InsertById(sorted, ep) ==
  IF sorted = <<>> THEN <<ep>>
  ELSE IF ep.id < Head(sorted).id THEN <<ep>> \o sorted
       ELSE <<Head(sorted)>> \o InsertById(Tail(sorted), ep)

RECURSIVE SortById(_, _)
\* line 322: eps.sort(key=lambda x: x.id)
SortById(sorted, eps) ==
  IF eps = <<>> THEN sorted ELSE SortById(InsertById(sorted, Head(eps)), Tail(eps))

\* lines 321-326
EpisodeItems(info) ==
  LET eps == SortById(<<>>, IF info.episodes = None THEN <<>> ELSE info.episodes)
  IN [i \in 1 .. Len(eps) |->
        [id |-> eps[i].id, number |-> eps[i].id,
         title |-> IF Truthy(eps[i].title) THEN eps[i].title ELSE JStr(<<"E", "p">>)]]

\* retry(fn, tries, delay) starts: line 99
StartRetry(l, tries) == [l EXCEPT !.tries = tries, !.attempt = 0, !.last_err = None]

\* lines 311-320 with the client called before the identifier is looked at
get_episodes_CallFirst(p) ==
  /\ p \in workers
  /\ pc[p] = "idle"
  /\ \E anime_id \in AnimeIds :
       /\ SetPc(p, "L102")
       /\ SetLoc(p, StartRetry([IdleLoc EXCEPT !.op = "get_episodes",
                                               !.req = [anime_id |-> anime_id]], DefaultTries))
  /\ hist' = StartHist(p)
  /\ UNCHANGED <<Config, Globals>>

\* GET /anime/{anime_id}/episodes, lines 311-320: a numeric anime_id is refused
\* before the client is used; otherwise retry(...) with its default tries
get_episodes(p) ==
  /\ p \in workers
  /\ pc[p] = "idle"
  /\ \E anime_id \in AnimeIds :
       LET l == [IdleLoc EXCEPT !.op = "get_episodes", !.req = [anime_id |-> anime_id]]
       IN IF IsDigit(anime_id)
          THEN SetPc(p, "failed") /\ SetLoc(p, HttpError(l, 400, "anime_id"))
          ELSE SetPc(p, IF DefaultTries > 0 THEN "L102" ELSE "L106")
               /\ SetLoc(p, StartRetry(l, DefaultTries))
  /\ hist' = StartHist(p)
  /\ UNCHANGED <<Config, Globals>>

\* retry(fn, tries) called on its own
call_retry(p) ==
  /\ p \in workers
  /\ pc[p] = "idle"
  /\ \E tries \in 1 .. MaxTries :
       /\ SetPc(p, "L102")
       /\ SetLoc(p, StartRetry([IdleLoc EXCEPT !.op = "retry"], tries))
  /\ hist' = StartHist(p)
  /\ UNCHANGED <<Config, Globals>>

\* line 102, fn() returns: retry returns its value; in get_episodes lines
\* 321-326 follow
L102_Ok(p) ==
  /\ pc[p] = "L102"
  /\ \E info \in env.infos :
       SetLoc(p, [IdleLoc EXCEPT !.op = loc[p].op, !.req = loc[p].req,
                                 !.tries = loc[p].tries, !.attempt = loc[p].attempt + 1,
                                 !.status = 200,
                                 !.ret = IF loc[p].op = "get_episodes" THEN EpisodeItems(info)
                                         ELSE <<info>>])
  /\ SetPc(p, "done")
  /\ SetHist(p, [hist[p] EXCEPT !.trace = Append(@, "call")])
  /\ UNCHANGED <<Config, Globals>>

\* line 102, fn() raises: lines 103-104
L102_Fail(p) ==
  /\ pc[p] = "L102"
  /\ \E e \in env.errors :
       /\ SetLoc(p, [loc[p] EXCEPT !.attempt = @ + 1, !.last_err = e])
       /\ SetHist(p, [hist[p] EXCEPT !.trace = Append(@, "call"), !.errs = Append(@, e)])
  /\ SetPc(p, "L105")
  /\ UNCHANGED <<Config, Globals>>

\* line 105: time.sleep(delay), then the next round of the loop of line 100
L105(p) ==
  /\ pc[p] = "L105"
  /\ SetPc(p, IF loc[p].attempt < loc[p].tries THEN "L102" ELSE "L106")
  /\ SetHist(p, [hist[p] EXCEPT !.trace = Append(@, "sleep")])
  /\ UNCHANGED <<Config, Globals, loc>>

\* line 106: raise last_exc; in get_episodes lines 329-330 turn it into a 500
L106(p) ==
  /\ pc[p] = "L106"
  /\ SetPc(p, "failed")
  /\ SetLoc(p, [IdleLoc EXCEPT !.op = loc[p].op, !.req = loc[p].req,
                               !.tries = loc[p].tries, !.attempt = loc[p].attempt,
                               !.last_err = loc[p].last_err,
                               !.status = IF loc[p].op = "get_episodes" THEN 500 ELSE 0])
  /\ UNCHANGED <<Config, Globals, hist>>

RetryStep(p) ==
  \/ L102_Ok(p)
  \/ L102_Fail(p)
  \/ L105(p)
  \/ L106(p)

\* ------------------------------------- get_slug_set and /resolve
\* lines 276-278 without the lru_cache: every call computes the set anew
get_slug_set_Uncached(p) ==
  /\ p \in workers
  /\ pc[p] = "idle"
  /\ SetPc(p, "L259")
  /\ SetLoc(p, [IdleLoc EXCEPT !.op = "get_slug_set"])
  /\ hist' = StartHist(p)
  /\ UNCHANGED <<Config, Globals>>

\* get_slug_set(), lines 276-278: lru_cache answers from its entry when it has
\* one; otherwise the body runs, starting with get_cached_catalog(False)
get_slug_set(p) ==
  /\ p \in workers
  /\ pc[p] = "idle"
  /\ IF slug_set_cache.cached
     THEN /\ SetPc(p, "done")
          /\ SetLoc(p, [IdleLoc EXCEPT !.op = "get_slug_set", !.ret = slug_set_cache.value,
                                       !.status = 200])
     ELSE /\ SetPc(p, "L259")
          /\ SetLoc(p, [IdleLoc EXCEPT !.op = "get_slug_set"])
  /\ hist' = StartHist(p)
  /\ UNCHANGED <<Config, Globals>>

\* line 278: the set of the ids, which lru_cache keeps
L278(p) ==
  /\ pc[p] = "L278"
  /\ LET ids == {loc[p].ret[i].id : i \in 1 .. Len(loc[p].ret)}
     IN /\ slug_set_cache' = [cached |-> TRUE, value |-> ids]
        /\ SetLoc(p, [loc[p] EXCEPT !.ret = ids])
  /\ SetPc(p, "done")
  /\ UNCHANGED <<Config, CATALOG_CACHE, CATALOG_CACHE_TS, disk, clock, persisted, hist>>

\* GET /resolve (lines 400-417): fuzzy_resolve_title starts with
\* get_cached_catalog(False) (line 282)
resolve_title_to_slug(p) ==
  /\ p \in workers
  /\ pc[p] = "idle"
  /\ SetPc(p, "L259")
  /\ SetLoc(p, [IdleLoc EXCEPT !.op = "resolve"])
  /\ hist' = StartHist(p)
  /\ UNCHANGED <<Config, Globals>>

\* lines 283-291 and 411-413: difflib picks the title closest to the query if
\* one is close enough, and the first entry with that title is the answer;
\* with no such title the answer is 404
L283(p) ==
  /\ pc[p] = "L283"
  /\ \/ /\ SetPc(p, "failed")
        /\ SetLoc(p, HttpError(loc[p], 404, "no_match"))
     \/ \E k \in 1 .. Len(loc[p].ret) :
          /\ \A j \in 1 .. k - 1 : loc[p].ret[j].title # loc[p].ret[k].title
          /\ SetPc(p, "done")
          /\ SetLoc(p, [loc[p] EXCEPT !.ret = <<loc[p].ret[k]>>])
  /\ UNCHANGED <<Config, Globals, hist>>

\* the client has its answer; the thread takes the next request
Finish(p) ==
  /\ pc[p] \in {"done", "failed"}
  /\ SetPc(p, "idle")
  /\ SetLoc(p, IdleLoc)
  /\ SetHist(p, IdleHist)
  /\ UNCHANGED <<Config, Globals>>

\* ------------------------------------------------- get_cached_catalog
\* crawl_catalog(start_page=1, max_pages=CATALOG_MAX_PAGES) of line 270
StartRefresh(l) == [l EXCEPT !.page = 1, !.stop = 1 + CATALOG_MAX_PAGES]

\* line 259, and the force_refresh tests of lines 260 and 263, which read
\* no global
L259(p) ==
  /\ pc[p] = "L259"
  /\ LET l == [loc[p] EXCEPT !.now = clock]
     IN IF l.force
        THEN SetPc(p, "L214") /\ SetLoc(p, StartRefresh(l))
        ELSE SetPc(p, "L260") /\ SetLoc(p, l)
  /\ UNCHANGED <<Config, Globals, hist>>

\* line 260 without its test of CATALOG_CACHE: only the age decides
L260_AgeOnly(p) ==
  /\ pc[p] = "L260"
  /\ SetPc(p, "L260ts")
  /\ UNCHANGED <<Config, Globals, loc, hist>>

\* line 260: is CATALOG_CACHE non-empty?
L260(p) ==
  /\ pc[p] = "L260"
  /\ SetPc(p, IF CATALOG_CACHE # <<>> THEN "L260ts" ELSE "L263")
  /\ UNCHANGED <<Config, Globals, loc, hist>>

\* line 260 with <= for <
FreshInclusive(now, ts) == now - ts <= CATALOG_TTL_SEC

\* line 260: (now - CATALOG_CACHE_TS) < CATALOG_TTL_SEC
Fresh(now, ts) == now - ts < CATALOG_TTL_SEC

L260ts(p) ==
  /\ pc[p] = "L260ts"
  /\ SetPc(p, IF Fresh(loc[p].now, CATALOG_CACHE_TS) THEN "L261" ELSE "L263")
  /\ UNCHANGED <<Config, Globals, loc, hist>>

\* line 261: return CATALOG_CACHE
L261(p) ==
  /\ pc[p] = "L261"
  /\ SetPc(p, ReturnTo(loc[p]))
  /\ SetLoc(p, Returned(loc[p], CATALOG_CACHE))
  /\ SetHist(p, [hist[p] EXCEPT !.path = "memory"])
  /\ UNCHANGED <<Config, Globals>>

\* line 263 without its test of CATALOG_CACHE: the snapshot is tried whenever
\* the call is not forced
L263_AlwaysDisk(p) ==
  /\ pc[p] = "L263"
  /\ SetPc(p, "L264")
  /\ UNCHANGED <<Config, Globals, loc, hist>>

\* line 263: not CATALOG_CACHE (force_refresh is false here)
L263(p) ==
  /\ pc[p] = "L263"
  /\ IF CATALOG_CACHE = <<>>
     THEN SetPc(p, "L264") /\ UNCHANGED loc
     ELSE SetPc(p, "L214") /\ SetLoc(p, StartRefresh(loc[p]))
  /\ UNCHANGED <<Config, Globals, hist>>

\* lines 264-265: read the snapshot
L264(p) ==
  /\ pc[p] = "L264"
  /\ LET disk_items == load_catalog_from_disk(CATALOG_JSON_PATH, disk)
     IN IF disk_items # <<>>
        THEN SetPc(p, "L266") /\ SetLoc(p, [loc[p] EXCEPT !.disk_items = disk_items])
        ELSE SetPc(p, "L214") /\ SetLoc(p, StartRefresh(loc[p]))
  /\ SetHist(p, [hist[p] EXCEPT !.rdDisk = CATALOG_JSON_PATH])
  /\ UNCHANGED <<Config, Globals>>

\* line 266
L266(p) ==
  /\ pc[p] = "L266"
  /\ CATALOG_CACHE' = loc[p].disk_items
  /\ SetPc(p, "L267")
  /\ SetHist(p, [hist[p] EXCEPT !.wrote = @ \cup {"cache"}])
  /\ UNCHANGED <<Config, Memo, CATALOG_CACHE_TS, disk, clock, loc>>

\* line 267 left out: adopting the snapshot leaves the timestamp as it was
L267_NoStamp(p) ==
  /\ pc[p] = "L267"
  /\ SetPc(p, "L268")
  /\ UNCHANGED <<Config, Memo, CATALOG_CACHE, CATALOG_CACHE_TS, disk, clock, loc, hist>>

\* line 267
L267(p) ==
  /\ pc[p] = "L267"
  /\ CATALOG_CACHE_TS' = loc[p].now
  /\ SetPc(p, "L268")
  /\ SetHist(p, [hist[p] EXCEPT !.wrote = @ \cup {"ts"}])
  /\ UNCHANGED <<Config, Memo, CATALOG_CACHE, disk, clock, loc>>

\* line 268: return CATALOG_CACHE
L268(p) ==
  /\ pc[p] = "L268"
  /\ SetPc(p, ReturnTo(loc[p]))
  /\ SetLoc(p, Returned(loc[p], CATALOG_CACHE))
  /\ SetHist(p, [hist[p] EXCEPT !.path = "disk"])
  /\ UNCHANGED <<Config, Globals>>

\* ------------------------------------------------------ crawl_catalog
\* the ad-hoc crawl stored in the shared cache like a refresh
AfterCrawl_Store(p, l) ==
  /\ SetPc(p, "L271")
  /\ SetLoc(p, [l EXCEPT !.page = 0, !.stop = 0, !.host = 0, !.last_err = None])

\* crawl_catalog returns l.out: to line 271 of get_cached_catalog, or to
\* line 388 of list_catalog when the crawl is ad hoc
AfterCrawl(p, l) ==
  IF l.op = "adhoc"
  THEN SetPc(p, "done") /\ SetLoc(p, Returned(l, l.out))
  ELSE /\ SetPc(p, "L271")
       /\ SetLoc(p, [l EXCEPT !.page = 0, !.stop = 0, !.host = 0, !.last_err = None])

\* line 214 behind a single-flight guard: a crawl waits while another thread
\* is between the start of its crawl and the end of its refresh
L214_SingleFlight(p) ==
  /\ pc[p] = "L214"
  /\ \A q \in Threads \ {p} : pc[q] \notin {"L214", "L194", "L271", "L272", "L273"}
  /\ IF loc[p].page < loc[p].stop
     THEN /\ SetPc(p, "L194")
          /\ SetLoc(p, [loc[p] EXCEPT !.host = 1, !.last_err = None])
          /\ SetHist(p, [hist[p] EXCEPT !.tried = <<>>, !.errs = <<>>, !.path = "crawl"])
     ELSE /\ AfterCrawl(p, loc[p])
          /\ SetHist(p, [hist[p] EXCEPT !.path = "crawl"])
  /\ UNCHANGED <<Config, Globals>>

\* line 214: for p in range(start_page, start_page + max_pages); lines
\* 189-191: fetch_catalog_page starts with the first candidate host
L214(p) ==
  /\ pc[p] = "L214"
  /\ IF loc[p].page < loc[p].stop
     THEN /\ SetPc(p, "L194")
          /\ SetLoc(p, [loc[p] EXCEPT !.host = 1, !.last_err = None])
          /\ SetHist(p, [hist[p] EXCEPT !.tried = <<>>, !.errs = <<>>, !.path = "crawl"])
     ELSE /\ AfterCrawl(p, loc[p])
          /\ SetHist(p, [hist[p] EXCEPT !.path = "crawl"])
  /\ UNCHANGED <<Config, Globals>>

\* lines 216-227 without the two breaks: the loop goes on to the next page
AfterPage_NoBreak(p, l, items) ==
  LET out == AddItems(l.out, items)
  IN SetPc(p, "L214") /\ SetLoc(p, [l EXCEPT !.out = out, !.page = @ + 1])

\* lines 216-227: what the loop body does with the page's items
AfterPage(p, l, items) ==
  LET out == AddItems(l.out, items)
      added == Len(out) - Len(l.out)
  IN IF items = <<>> \/ added = 0
     THEN AfterCrawl(p, [l EXCEPT !.out = out])
     ELSE SetPc(p, "L214") /\ SetLoc(p, [l EXCEPT !.out = out, !.page = @ + 1])

\* the pages a crawl was served: page number and the slugs extracted
Logged(h, l, items) ==
  IF env.logging
  THEN Append(h.log, [page |-> l.page, ids |-> [i \in 1 .. Len(items) |-> items[i][1]]])
  ELSE h.log

\* line 194, the GET answers 2xx: lines 195-199, then the loop body
HttpOk(p) ==
  /\ pc[p] = "L194"
  /\ \E body \in env.bodies :
       LET items == ExtractItems(body)
       IN /\ AfterPage(p, loc[p], items)
          /\ SetHist(p, [hist[p] EXCEPT
                           !.gets = @ + 1,
                           !.tried = Append(@, BASE_CANDIDATES[loc[p].host]),
                           !.log = Logged(hist[p], loc[p], items)])
  /\ UNCHANGED <<Config, Globals>>

\* lines 200-203 with the failure of the last host ending the crawl quietly:
\* what earlier pages gave is returned
HttpFail_Partial(p) ==
  /\ pc[p] = "L194"
  /\ \E e \in env.errors :
       /\ IF loc[p].host < Len(BASE_CANDIDATES)
          THEN SetPc(p, "L194") /\ SetLoc(p, [loc[p] EXCEPT !.host = @ + 1, !.last_err = e])
          ELSE AfterCrawl(p, loc[p])
       /\ SetHist(p, [hist[p] EXCEPT
                        !.gets = @ + 1,
                        !.tried = Append(@, BASE_CANDIDATES[loc[p].host]),
                        !.errs = Append(@, e)])
  /\ UNCHANGED <<Config, Globals>>

\* line 194, the GET raises: lines 200-203
HttpFail(p) ==
  /\ pc[p] = "L194"
  /\ \E e \in env.errors :
       /\ IF loc[p].host < Len(BASE_CANDIDATES)
          THEN SetPc(p, "L194") /\ SetLoc(p, [loc[p] EXCEPT !.host = @ + 1, !.last_err = e])
          ELSE SetPc(p, "failed") /\ SetLoc(p, Raised(loc[p], e))
       /\ SetHist(p, [hist[p] EXCEPT
                        !.gets = @ + 1,
                        !.tried = Append(@, BASE_CANDIDATES[loc[p].host]),
                        !.errs = Append(@, e)])
  /\ UNCHANGED <<Config, Globals>>

\* ------------------------------------- get_cached_catalog, lines 271-274
\* line 271 merging the crawl into the old entries instead of replacing them
L271_Merge(p) ==
  /\ pc[p] = "L271"
  /\ CATALOG_CACHE' = CATALOG_CACHE \o loc[p].out
  /\ SetPc(p, "L272")
  /\ SetHist(p, [hist[p] EXCEPT !.wrote = @ \cup {"cache"}])
  /\ UNCHANGED <<Config, Memo, CATALOG_CACHE_TS, disk, clock, loc>>

L271(p) ==
  /\ pc[p] = "L271"
  /\ CATALOG_CACHE' = loc[p].out
  /\ SetPc(p, "L272")
  /\ SetHist(p, [hist[p] EXCEPT !.wrote = @ \cup {"cache"}])
  /\ UNCHANGED <<Config, Memo, CATALOG_CACHE_TS, disk, clock, loc>>

\* line 272 left out: the refresh does not stamp the time
L272_NoStamp(p) ==
  /\ pc[p] = "L272"
  /\ SetPc(p, "L273")
  /\ UNCHANGED <<Config, Memo, CATALOG_CACHE, CATALOG_CACHE_TS, disk, clock, loc, hist>>

L272(p) ==
  /\ pc[p] = "L272"
  /\ CATALOG_CACHE_TS' = loc[p].now
  /\ SetPc(p, "L273")
  /\ SetHist(p, [hist[p] EXCEPT !.wrote = @ \cup {"ts"}])
  /\ UNCHANGED <<Config, Memo, CATALOG_CACHE, disk, clock, loc>>

\* line 273 left out: the crawl is stored in memory and never persisted
L273_NoSave(p) ==
  /\ pc[p] = "L273"
  /\ SetPc(p, "L274")
  /\ UNCHANGED <<Config, Globals, loc, hist>>

\* line 273: _save_catalog_to_disk(items), lines 248-255
L273(p) ==
  /\ pc[p] = "L273"
  /\ IF CATALOG_JSON_PATH
     THEN \E outcome \in env.saves :
            /\ disk' = save_catalog_to_disk(disk, loc[p].out, outcome)
            /\ SetHist(p, [hist[p] EXCEPT
                             !.saved = outcome,
                             !.wrote = IF outcome = "open_failed" THEN @ ELSE @ \cup {"disk"}])
            /\ persisted' = IF env.audit THEN Stored(persisted, loc[p].out, outcome)
                            ELSE persisted
     ELSE UNCHANGED <<disk, hist, persisted>>
  /\ SetPc(p, "L274")
  /\ UNCHANGED <<Config, slug_set_cache, CATALOG_CACHE, CATALOG_CACHE_TS, clock, loc>>

\* line 274: return CATALOG_CACHE
L274(p) ==
  /\ pc[p] = "L274"
  /\ SetPc(p, ReturnTo(loc[p]))
  /\ SetLoc(p, Returned(loc[p], CATALOG_CACHE))
  /\ UNCHANGED <<Config, Globals, hist>>

\* ------------------------------------------------------ specification
CacheStep(p) ==
  \/ L259(p)
  \/ L260(p)
  \/ L260ts(p)
  \/ L261(p)
  \/ L263(p)
  \/ L264(p)
  \/ L266(p)
  \/ L267(p)
  \/ L268(p)
  \/ L271(p)
  \/ L272(p)
  \/ L273(p)
  \/ L274(p)

CrawlStep(p) ==
  \/ L214(p)
  \/ HttpOk(p)
  \/ HttpFail(p)

Next ==
  \/ Tick
  \/ \E p \in Threads : list_catalog(p)
  \/ \E p \in Threads : list_slugs(p)
  \/ \E p \in Threads : Finish(p)
  \/ \E p \in Threads : CacheStep(p)
  \/ \E p \in Threads : CrawlStep(p)

Spec == Init /\ [][Next]_vars

\* ---------------------------------------------- the crawler on its own
\* one worker serving ad-hoc /catalog requests against a site that serves any
\* body, with the pages served recorded
InitCrawl ==
  /\ Started
  /\ workers = {"t1"}
  /\ BASE_CANDIDATES = Hosts(MaxHosts)
  /\ CATALOG_MAX_PAGES = PageCeiling
  /\ env = [bodies |-> Bodies, pages |-> EpisodePages, infos |-> {}, errors |-> Errors,
            saves |-> SaveOutcomes, logging |-> TRUE, audit |-> FALSE]
  /\ CATALOG_JSON_PATH = FALSE
  /\ disk = [state |-> "absent", data |-> <<>>]

adhoc_catalog(p) ==
  \E start_page \in 1 .. MaxStartPage, max_pages \in 1 .. MaxAdhocPages :
    Catalog(p, FALSE, start_page, max_pages)

NextCrawl ==
  \/ \E p \in Threads : adhoc_catalog(p)
  \/ \E p \in Threads : CrawlStep(p)
  \/ \E p \in Threads : get_episode_videos(p)
  \/ \E p \in Threads : EpisodeOk(p)
  \/ \E p \in Threads : EpisodeFail(p)
  \/ \E p \in Threads : Finish(p)

SpecCrawl == InitCrawl /\ [][NextCrawl]_vars

\* one worker serving ad-hoc /catalog requests against a site of plain
\* pages, with the pages served recorded; a crawl that can take a step takes
\* it in the end (every GET has a timeout, lines 108-113 and 194)
InitListing ==
  /\ Started
  /\ workers = {"t1"}
  /\ BASE_CANDIDATES = Hosts(MaxHosts)
  /\ CATALOG_MAX_PAGES = PageCeiling
  /\ env = [bodies |-> PlainBodies, pages |-> {}, infos |-> {}, errors |-> {"timeout"},
            saves |-> SaveOutcomes, logging |-> TRUE, audit |-> FALSE]
  /\ CATALOG_JSON_PATH = FALSE
  /\ disk = [state |-> "absent", data |-> <<>>]

NextListing ==
  \/ \E p \in Threads : adhoc_catalog(p)
  \/ \E p \in Threads : CrawlStep(p)
  \/ \E p \in Threads : Finish(p)

SpecListing ==
  InitListing /\ [][NextListing]_vars /\ \A p \in Threads : WF_vars(CrawlStep(p))

\* ------------------------------------------------- concurrent requests
\* two workers, one candidate host that answers every GET, refreshes of one
\* page, a snapshot path whose file can be written
SmallBodies == {<<>>, << <<(<<"a">>), "x">> >>}

InitConc ==
  /\ Started
  /\ workers = Threads
  /\ BASE_CANDIDATES = Hosts(1)
  /\ CATALOG_MAX_PAGES = 1
  /\ env = [bodies |-> SmallBodies, pages |-> {}, infos |-> {}, errors |-> {},
            saves |-> {"written"},
            logging |-> FALSE, audit |-> FALSE]
  /\ CATALOG_JSON_PATH = TRUE
  /\ disk \in {[state |-> "absent", data |-> <<>>],
               [state |-> "list", data |-> JsonDump(<<[id |-> <<"a">>, title |-> "y"]>>)]}

cached_catalog(p) == \E refresh \in BOOLEAN : Catalog(p, refresh, 1, 0)

NextConc ==
  \/ Tick
  \/ \E p \in Threads : cached_catalog(p)
  \/ \E p \in Threads : Finish(p)
  \/ \E p \in Threads : CacheStep(p)
  \/ \E p \in Threads : L214(p)
  \/ \E p \in Threads : HttpOk(p)

SpecConc == InitConc /\ [][NextConc]_vars

\* ------------------------------------------- the process across restarts
\* one worker, one candidate host that answers every GET with a plain page, a
\* snapshot path whose file starts absent; the process can be stopped and
\* started again
InitRestart ==
  /\ Started
  /\ workers = {"t1"}
  /\ BASE_CANDIDATES = Hosts(1)
  /\ CATALOG_MAX_PAGES = PageCeiling
  /\ env = [bodies |-> PlainBodies, pages |-> {}, infos |-> {}, errors |-> {},
            saves |-> SaveOutcomes,
            logging |-> FALSE, audit |-> TRUE]
  /\ CATALOG_JSON_PATH = TRUE
  /\ disk = [state |-> "absent", data |-> <<>>]

\* the idle process is stopped and started again: the module is imported
\* afresh (lines 231-232, 276), the file and the clock stay
Restart ==
  /\ \A p \in Threads : pc[p] = "idle"
  /\ CATALOG_CACHE # <<>> \/ CATALOG_CACHE_TS # 0 \/ slug_set_cache.cached
  /\ CATALOG_CACHE' = <<>>
  /\ CATALOG_CACHE_TS' = 0
  /\ slug_set_cache' = NoMemo
  /\ UNCHANGED <<Config, disk, clock, persisted, pc, loc, hist>>

NextRestart ==
  \/ Tick
  \/ Restart
  \/ \E p \in Threads : cached_catalog(p)
  \/ \E p \in Threads : Finish(p)
  \/ \E p \in Threads : CacheStep(p)
  \/ \E p \in Threads : L214(p)
  \/ \E p \in Threads : HttpOk(p)

SpecRestart == InitRestart /\ [][NextRestart]_vars

\* ----------------------------------------------- the episode handlers
\* one worker serving the two episode requests and bare calls of retry; hosts
\* and client fail in two ways
InitEpisodes ==
  /\ Started
  /\ workers = {"t1"}
  /\ BASE_CANDIDATES = Hosts(MaxHosts)
  /\ CATALOG_MAX_PAGES = PageCeiling
  /\ env = [bodies |-> {}, pages |-> EpisodePages, infos |-> AnimeInfos, errors |-> Errors,
            saves |-> {}, logging |-> FALSE, audit |-> FALSE]
  /\ CATALOG_JSON_PATH = FALSE
  /\ disk = [state |-> "absent", data |-> <<>>]

NextEpisodes ==
  \/ \E p \in Threads : get_episode_videos(p)
  \/ \E p \in Threads : EpisodeOk(p)
  \/ \E p \in Threads : EpisodeFail(p)
  \/ \E p \in Threads : get_episodes(p)
  \/ \E p \in Threads : call_retry(p)
  \/ \E p \in Threads : RetryStep(p)
  \/ \E p \in Threads : Finish(p)

SpecEpisodes == InitEpisodes /\ [][NextEpisodes]_vars

\* --------------------------------------------- every reader of the cache
\* one worker serving /catalog, /slugs, /resolve and calls of get_slug_set;
\* one candidate host that answers every GET with a plain page; the snapshot
\* file is absent or holds one entry
InitViews ==
  /\ Started
  /\ workers = {"t1"}
  /\ BASE_CANDIDATES = Hosts(1)
  /\ CATALOG_MAX_PAGES = PageCeiling
  /\ env = [bodies |-> PlainBodies, pages |-> {}, infos |-> {}, errors |-> {},
            saves |-> {"written"}, logging |-> FALSE, audit |-> FALSE]
  /\ CATALOG_JSON_PATH \in BOOLEAN
  /\ disk \in {[state |-> "absent", data |-> <<>>],
               [state |-> "list", data |-> JsonDump(<<[id |-> <<"a">>, title |-> "y"]>>)]}
  /\ (~CATALOG_JSON_PATH => disk.state = "absent")

NextViews ==
  \/ Tick
  \/ \E p \in Threads : cached_catalog(p)
  \/ \E p \in Threads : list_slugs(p)
  \/ \E p \in Threads : resolve_title_to_slug(p)
  \/ \E p \in Threads : get_slug_set(p)
  \/ \E p \in Threads : L278(p)
  \/ \E p \in Threads : L283(p)
  \/ \E p \in Threads : Finish(p)
  \/ \E p \in Threads : CacheStep(p)
  \/ \E p \in Threads : L214(p)
  \/ \E p \in Threads : HttpOk(p)

SpecViews == InitViews /\ [][NextViews]_vars

\* ------------------------------- pick_best and flatten_videos on their own
\* the VideoItems flatten_videos can build: a lower-case server (in the
\* preference list, outside it, or empty), a code that is None or non-empty
PickServers == {<<"s", "w">>, <<"m", "e", "g", "a">>, <<"x">>, <<>>}
PickItems ==
  {[track |-> "SUB", server |-> sv, title |-> t, code |-> c, url |-> PyNone] :
     sv \in PickServers, t \in {PyNone, JStr(<<"t">>)}, c \in {PyNone, JStr(<<"c">>)}}
PickInputs == SeqsUpTo(PickItems, MaxPickLen)

\* a process that does nothing but call pick_best and flatten_videos
InitPick ==
  /\ Started
  /\ workers = {"t1"}
  /\ BASE_CANDIDATES = Hosts(1)
  /\ CATALOG_MAX_PAGES = PageCeiling
  /\ env = [bodies |-> {}, pages |-> {}, infos |-> {}, errors |-> {}, saves |-> {},
            logging |-> FALSE, audit |-> FALSE]
  /\ CATALOG_JSON_PATH = FALSE
  /\ disk = [state |-> "absent", data |-> <<>>]

\* pick_best(items), lines 167-175
call_pick_best(p) ==
  /\ p \in workers
  /\ pc[p] = "idle"
  /\ \E items \in PickInputs :
       SetLoc(p, [IdleLoc EXCEPT !.op = "pick_best", !.req = items,
                                 !.ret = pick_best(items), !.status = 200])
  /\ SetPc(p, "done")
  /\ UNCHANGED <<Config, Globals, hist>>

\* the raw items a track of `var videos` can hold: keys missing, null, empty
\* or set, separators escaped or not
RawItems ==
  {[server |-> sv, title |-> t, code |-> c, url |-> u] :
     sv \in {JNull, JStr(<<"S", "W">>)},
     t \in {JMissing, JNull, JStr(<<>>), JStr(<<"t">>)},
     c \in {JMissing, JNull, JStr(<<>>), JStr(<<"\\", "/">>)},
     u \in {JNull, JStr(<<>>), JStr(<<"a", "\\", "/">>)}}
RawVideos ==
  {[SUB |-> sub, LAT |-> lat] :
     sub \in {NoTrack} \cup {Track(items) : items \in SeqsUpTo(RawItems, MaxRawLen)},
     lat \in {NoTrack, Track(<<>>), Track(<<RawVideo(JStr(<<"M">>), JNull)>>)}}

\* flatten_videos(videos), lines 149-163
call_flatten_videos(p) ==
  /\ p \in workers
  /\ pc[p] = "idle"
  /\ \E videos \in RawVideos :
       SetLoc(p, [IdleLoc EXCEPT !.op = "flatten_videos", !.req = videos,
                                 !.ret = flatten_videos(videos), !.status = 200])
  /\ SetPc(p, "done")
  /\ UNCHANGED <<Config, Globals, hist>>

NextPick ==
  \/ \E p \in Threads : call_pick_best(p)
  \/ \E p \in Threads : call_flatten_videos(p)
  \/ \E p \in Threads : Finish(p)

SpecPick == InitPick /\ [][NextPick]_vars

\* =============================================================== claims
RECURSIVE Flat(_)
\* the slugs of the pages of a log, in the order they were served
Flat(log) == IF log = <<>> THEN <<>> ELSE Head(log).ids \o Flat(Tail(log))

\* where a slug first occurs in a sequence of slugs (0: nowhere)
FirstPos(ids, id) ==
  IF \E i \in 1 .. Len(ids) : ids[i] = id
  THEN CHOOSE i \in 1 .. Len(ids) : ids[i] = id /\ \A j \in 1 .. i - 1 : ids[j] # id
  ELSE 0

\* `entries` holds no identifier twice and lists its identifiers in the order
\* in which they first occur in `ids`
FirstSeenOrder(entries, ids) ==
  /\ \A i, j \in 1 .. Len(entries) : i # j => entries[i].id # entries[j].id
  /\ \A i \in 1 .. Len(entries) : FirstPos(ids, entries[i].id) > 0
  /\ \A i, j \in 1 .. Len(entries) :
       i < j <=> FirstPos(ids, entries[i].id) < FirstPos(ids, entries[j].id)

\* C1: whatever start_page, max_pages and pages served, the list crawl_catalog
\* has built and the list it returns hold no identifier twice, and their
\* entries are in first-seen order: A precedes B iff A's identifier first
\* occurred on an earlier page than B's, or earlier on the same page.
C1_FirstSeenNoDuplicates ==
  \A p \in Threads :
    loc[p].op = "adhoc" =>
      /\ FirstSeenOrder(loc[p].out, Flat(hist[p].log))
      /\ (pc[p] = "done" => loc[p].ret = loc[p].out)

\* a crawl returned two entries although the second page repeated a slug of
\* the first and a later slug came before an earlier one on a page
C1_Witness ==
  \E p \in Threads :
    /\ pc[p] = "done" /\ loc[p].op = "adhoc"
    /\ Len(loc[p].ret) = 2
    /\ Len(hist[p].log) = 2
    /\ \E i \in 1 .. Len(hist[p].log[2].ids) : hist[p].log[2].ids[i] = loc[p].ret[1].id

\* ---------------------------------------------------------------------
\* the call of thread p went through get_cached_catalog
CachedCall(p) == loc[p].op \in {"list_catalog", "list_slugs"}
Ended(p) == pc[p] \in {"done", "failed"}

NoDuplicateIds(entries) ==
  \A i, j \in 1 .. Len(entries) : i # j => entries[i].id # entries[j].id

\* C2: in every reachable state, whatever list of objects the snapshot file
\* holds, the in-memory catalog cache never contains two entries with the same
\* identifier.
C2_CacheIdsUnique == NoDuplicateIds(CATALOG_CACHE)

\* C3 as claimed: every call get_cached_catalog(force_refresh=true) leaves
\* CATALOG_CACHE_TS strictly greater than its value right before the call.
C3_ForcedStrictlyNewer ==
  \A p \in Threads :
    (CachedCall(p) /\ loc[p].force /\ hist[p].quiet /\ Ended(p))
      => CATALOG_CACHE_TS > hist[p].ts0

\* C3 amended: a forced call that returns, with no other cache call
\* overlapping it, leaves CATALOG_CACHE_TS equal to the clock value it read at
\* its start, which is never less than the value before the call and is
\* strictly greater exactly when the clock has moved past that value; a forced
\* call whose crawl fails leaves CATALOG_CACHE_TS as it was.
C3_ForcedStampsStartTime ==
  \A p \in Threads :
    (CachedCall(p) /\ loc[p].force /\ hist[p].quiet) =>
      /\ (pc[p] = "done" =>
            /\ CATALOG_CACHE_TS = loc[p].now
            /\ CATALOG_CACHE_TS >= hist[p].ts0
            /\ (CATALOG_CACHE_TS > hist[p].ts0 <=> loc[p].now > hist[p].ts0))
      /\ (pc[p] = "failed" => CATALOG_CACHE_TS = hist[p].ts0)

\* a forced refresh of a cache that had been refreshed before returned with a
\* newer timestamp
C3_Witness ==
  \E p \in Threads :
    /\ CachedCall(p) /\ loc[p].force /\ hist[p].quiet /\ pc[p] = "done"
    /\ hist[p].ts0 > 0
    /\ CATALOG_CACHE_TS > hist[p].ts0

\* C4: a non-forced call made while memory is non-empty returns the in-memory
\* entries without any GET, without reading or writing the snapshot, and
\* leaving entries and timestamp unchanged, exactly when
\* now - last_refreshed_at < ttl; when now - last_refreshed_at >= ttl the call
\* performs a crawl instead.
C4_MemoryHitIffFresh ==
  \A p \in Threads :
    (CachedCall(p) /\ ~loc[p].force /\ hist[p].quiet /\ hist[p].cache0 # <<>> /\ Ended(p)) =>
      LET fresh == loc[p].now - hist[p].ts0 < CATALOG_TTL_SEC
      IN /\ fresh <=> hist[p].path = "memory"
         /\ fresh =>
              /\ pc[p] = "done" /\ loc[p].ret = hist[p].cache0
              /\ hist[p].gets = 0 /\ ~hist[p].rdDisk /\ hist[p].wrote = {}
              /\ CATALOG_CACHE = hist[p].cache0
              /\ CATALOG_CACHE_TS = hist[p].ts0
              /\ disk = hist[p].disk0
         /\ ~fresh => hist[p].path = "crawl" /\ hist[p].gets > 0 /\ ~hist[p].rdDisk

\* a non-forced call found the entries exactly ttl old and crawled
C4_Witness ==
  \E p \in Threads :
    /\ CachedCall(p) /\ ~loc[p].force /\ hist[p].quiet /\ hist[p].cache0 # <<>>
    /\ pc[p] = "done"
    /\ loc[p].now - hist[p].ts0 = CATALOG_TTL_SEC
    /\ hist[p].path = "crawl"

\* C5: a non-forced call made while memory is empty and the snapshot loads as
\* a non-empty list adopts the loaded entries, stamps the current time, returns
\* them, and performs no GET and no write of the snapshot; and the snapshot is
\* read only by a non-forced call that found memory empty.
C5_ColdStartAdoptsSnapshot ==
  \A p \in Threads :
    (CachedCall(p) /\ hist[p].quiet) =>
      /\ (hist[p].rdDisk => ~loc[p].force /\ hist[p].cache0 = <<>>)
      /\ LET loaded == load_catalog_from_disk(CATALOG_JSON_PATH, hist[p].disk0)
         IN (~loc[p].force /\ hist[p].cache0 = <<>> /\ loaded # <<>> /\ Ended(p)) =>
              /\ pc[p] = "done" /\ hist[p].path = "disk" /\ hist[p].rdDisk
              /\ CATALOG_CACHE = loaded
              /\ CATALOG_CACHE_TS = loc[p].now
              /\ loc[p].ret = loaded
              /\ hist[p].gets = 0
              /\ "disk" \notin hist[p].wrote /\ disk = hist[p].disk0

\* a cold start adopted a snapshot that also held an item the filter drops,
\* at a time later than the process start
C5_Witness ==
  \E p \in Threads :
    /\ CachedCall(p) /\ pc[p] = "done" /\ hist[p].path = "disk"
    /\ Len(CATALOG_CACHE) < Len(disk.data)
    /\ CATALOG_CACHE_TS > 1

\* C6: whenever get_cached_catalog completes via a crawl, the in-memory entries
\* are exactly the crawl's result (nothing of the previous cache survives
\* unless the crawl produced it, also when the result is empty), that result is
\* what a snapshot write puts in the file when a path is configured, and it is
\* the value returned.
C6_RefreshReplacesWholesale ==
  \A p \in Threads :
    (CachedCall(p) /\ hist[p].quiet /\ pc[p] = "done" /\ hist[p].path = "crawl") =>
      /\ CATALOG_CACHE = loc[p].out
      /\ loc[p].ret = loc[p].out
      /\ (hist[p].saved = "written" =>
            disk = [state |-> "list", data |-> JsonDump(loc[p].out)])
      /\ (CATALOG_JSON_PATH <=> hist[p].saved # None)
      /\ (~CATALOG_JSON_PATH => disk = hist[p].disk0)

\* a crawl that found nothing replaced a non-empty cache and was written out
C6_Witness ==
  \E p \in Threads :
    /\ CachedCall(p) /\ pc[p] = "done" /\ hist[p].path = "crawl"
    /\ hist[p].cache0 # <<>>
    /\ loc[p].out = <<>>
    /\ hist[p].saved = "written"

\* C7: if the fetch of a listing page fails on every candidate host, the crawl
\* raises and returns no entries (what earlier pages gave is not returned), and
\* when get_cached_catalog started it, the in-memory entries, the timestamp
\* and the snapshot are exactly as before the call.
C7_FailedCrawlLeavesNothing ==
  \A p \in Threads :
    (loc[p].op # None /\ hist[p].quiet) =>
      /\ (Len(hist[p].errs) = Len(BASE_CANDIDATES) <=> pc[p] = "failed")
      /\ (pc[p] = "failed" =>
            /\ loc[p].ret = <<>> /\ loc[p].status = 502
            /\ hist[p].wrote = {}
            /\ CATALOG_CACHE = hist[p].cache0
            /\ CATALOG_CACHE_TS = hist[p].ts0
            /\ disk = hist[p].disk0)

\* a refresh of a non-empty cache failed on its second page
C7_Witness ==
  \E p \in Threads :
    /\ CachedCall(p) /\ pc[p] = "failed"
    /\ hist[p].gets > Len(BASE_CANDIDATES)
    /\ hist[p].cache0 # <<>>

\* the call ended because every candidate host failed (lines 126, 203)
FetchFailed(p) ==
  pc[p] = "failed" /\ loc[p].last_err \in Errors /\ loc[p].op \notin {"retry", "get_episodes"}

\* C8: a page fetch (fetch_episode_html, fetch_catalog_page) asks the
\* candidate hosts in their configured order and each at most once: the hosts
\* asked so far are a prefix of BASE_CANDIDATES.  Every host asked before the
\* last one has failed, so nothing is asked after the first success, and the
\* episode page returned carries the url of the host that answered.  The fetch
\* fails exactly when all candidates have been asked and have failed, and the
\* error it reports is that of the last host.
C8_HostFallback ==
  \A p \in workers :
    LET tried == hist[p].tried
        errs == hist[p].errs
        n == Len(BASE_CANDIDATES)
    IN /\ Len(tried) <= n
       /\ \A i \in 1 .. Len(tried) : tried[i] = BASE_CANDIDATES[i]
       /\ Len(errs) <= Len(tried) /\ Len(tried) <= Len(errs) + 1
       /\ pc[p] \in {"L194", "L121"} =>
            /\ Len(errs) = Len(tried)
            /\ loc[p].host = Len(tried) + 1
            /\ loc[p].last_err = IF errs = <<>> THEN None ELSE errs[Len(errs)]
       /\ (pc[p] = "done" /\ loc[p].op = "get_episode_videos") =>
            /\ Len(tried) = Len(errs) + 1
            /\ loc[p].page_url = tried[Len(tried)]
       /\ FetchFailed(p) <=> (Len(errs) = n)
       /\ FetchFailed(p) => (Len(tried) = n /\ loc[p].last_err = errs[n])

\* the first host failed, the second answered, and its page was returned
C8_Witness ==
  \E p \in workers :
    /\ pc[p] = "done"
    /\ loc[p].op = "get_episode_videos"
    /\ Len(hist[p].errs) = 1
    /\ hist[p].tried = SubSeq(BASE_CANDIDATES, 1, 2)
    /\ loc[p].page_url = BASE_CANDIDATES[2]
    /\ loc[p].ret # <<>>

\* C9: a list_catalog call with an ad-hoc page count greater than zero crawls
\* and leaves the shared cache untouched, whether the crawl succeeds or fails:
\* entries, timestamp and snapshot are unchanged, the snapshot is not read, and
\* the result is the crawl's, not the cache's.
C9_AdhocBypassesCache ==
  \A p \in Threads :
    (loc[p].op = "adhoc" /\ hist[p].quiet) =>
      /\ CATALOG_CACHE = hist[p].cache0
      /\ CATALOG_CACHE_TS = hist[p].ts0
      /\ disk = hist[p].disk0
      /\ hist[p].wrote = {} /\ ~hist[p].rdDisk
      /\ pc[p] \in {"L214", "L194", "done", "failed"}
      /\ (Ended(p) => hist[p].gets > 0)
      /\ (pc[p] = "done" => loc[p].ret = loc[p].out)

\* an ad-hoc crawl returned entries other than those of the non-empty cache
C9_Witness ==
  \E p \in Threads :
    /\ loc[p].op = "adhoc" /\ pc[p] = "done"
    /\ CATALOG_CACHE # <<>>
    /\ loc[p].ret # <<>>
    /\ loc[p].ret # CATALOG_CACHE

\* the thread is between the start of its crawl and the end of its refresh
Refreshing(p) == pc[p] \in {"L214", "L194", "L271", "L272", "L273"}

\* no step of a refresh is disabled by the state of another thread
NeverWaits ==
  \A p \in workers :
    Refreshing(p) => ENABLED (L214(p) \/ HttpOk(p) \/ L271(p) \/ L272(p) \/ L273(p))

\* line 252: the file is opened for writing and holds the writer's crawl
WriteReplacesFile ==
  \A p \in workers :
    (pc[p] = "L273" /\ pc'[p] = "L274") =>
       disk' = [state |-> "list", data |-> JsonDump(loc[p].out)]

\* C10: nothing makes a refresh single-flight.  A call of get_cached_catalog
\* that has found the cache stale or empty is never held back by what another
\* thread is doing: each of its steps, the crawl and the write of the snapshot
\* included, can be taken in every state it is reached in, and its write
\* replaces whatever the file holds with its own crawl.  So two overlapping
\* calls can both crawl and both write, the later write winning.
C10_RefreshNeverWaits == [](NeverWaits) /\ [][WriteReplacesFile]_vars

\* two calls that read the same clock value and were not forced have both
\* crawled and both written the snapshot; the file holds what the later
\* writer crawled, not what the other did
C10_Witness ==
  \E p, q \in workers :
    /\ p # q
    /\ pc[p] = "done" /\ pc[q] = "done"
    /\ ~loc[p].force /\ ~loc[q].force
    /\ loc[p].now = loc[q].now
    /\ hist[p].path = "crawl" /\ hist[q].path = "crawl"
    /\ "disk" \in hist[p].wrote /\ "disk" \in hist[q].wrote
    /\ loc[p].out # <<>>
    /\ loc[q].out # loc[p].out
    /\ disk = [state |-> "list", data |-> JsonDump(loc[q].out)]

\* the rank of a host: its place in the preference list, every host outside
\* the list after all of those in it
HostRank(server) ==
  IF \E i \in 1 .. Len(PREFERRED) : PREFERRED[i] = server
  THEN CHOOSE i \in 1 .. Len(PREFERRED) : PREFERRED[i] = server
  ELSE Len(PREFERRED) + 1

\* a comes strictly before b: a lower host rank, or the same rank and a code
\* where b has none
Before(a, b) ==
  \/ HostRank(a.server) < HostRank(b.server)
  \/ HostRank(a.server) = HostRank(b.server) /\ a.code # PyNone /\ b.code = PyNone

\* C11: pick_best returns None iff its input is empty; otherwise it returns
\* an element of the input, the first one in input order that no other element
\* comes before under (host rank, code before no code); and for an input that
\* holds a record of host "sw" the record returned has host "sw".
C11_PickBestFirstByRank ==
  \A p \in workers :
    (pc[p] = "done" /\ loc[p].op = "pick_best") =>
      LET items == loc[p].req
          r == loc[p].ret
      IN /\ r = PyNone <=> items = <<>>
         /\ items # <<>> =>
              \E i \in 1 .. Len(items) :
                /\ items[i] = r
                /\ \A j \in 1 .. Len(items) : ~Before(items[j], items[i])
                /\ \A j \in 1 .. i - 1 : Before(items[i], items[j])
         /\ (\E i \in 1 .. Len(items) : items[i].server = <<"s", "w">>)
              => r.server = <<"s", "w">>

\* the input starts with a host outside the list and an "sw" record without
\* code; the "sw" record with a code that follows them is returned
C11_Witness ==
  \E p \in workers :
    /\ pc[p] = "done" /\ loc[p].op = "pick_best"
    /\ Len(loc[p].req) = 3
    /\ loc[p].req[1].server = <<"x">>
    /\ loc[p].req[2].server = <<"s", "w">> /\ loc[p].req[2].code = PyNone
    /\ loc[p].ret = loc[p].req[3]
    /\ loc[p].ret.server = <<"s", "w">> /\ loc[p].ret.code # PyNone

\* the (identifier, title) pairs of a catalog
Pairs(entries) == {<<entries[i].id, entries[i].title>> : i \in 1 .. Len(entries)}

\* C12: a non-empty catalog that a refresh wrote to the snapshot file is what
\* the file holds, and a non-forced call that finds memory empty (a cold
\* start) while the file holds it returns a catalog with the same set of
\* (identifier, title) pairs.
C12_SnapshotRoundTrip ==
  (persisted # None /\ persisted # <<>>) =>
    /\ disk = [state |-> "list", data |-> JsonDump(persisted)]
    /\ load_catalog_from_disk(CATALOG_JSON_PATH, disk) = persisted
    /\ \A p \in workers :
         (CachedCall(p) /\ ~loc[p].force /\ hist[p].cache0 = <<>> /\ hist[p].quiet /\ Ended(p)) =>
           /\ pc[p] = "done"
           /\ Pairs(loc[p].ret) = Pairs(persisted)

\* after a restart (timestamp 0.0 again) a cold call returned from the file
\* the two entries an earlier refresh had stored
C12_Witness ==
  \E p \in workers :
    /\ CachedCall(p) /\ ~loc[p].force /\ hist[p].quiet /\ pc[p] = "done"
    /\ hist[p].cache0 = <<>> /\ hist[p].ts0 = 0
    /\ hist[p].path = "disk"
    /\ persisted # None /\ Len(persisted) = 2
    /\ loc[p].ret = persisted

\* C13: a request of get_episode_videos or get_episodes whose anime_id is all
\* digits ends with the 400 error, and a request that ends with the 400 error
\* has fetched no page and has not called the upstream client.
C13_DigitsRefusedBeforeNetwork ==
  \A p \in workers :
    loc[p].op \in {"get_episode_videos", "get_episodes"} =>
      /\ IsDigit(loc[p].req.anime_id) => (pc[p] = "failed" /\ loc[p].status = 400)
      /\ (pc[p] = "failed" /\ loc[p].status = 400) =>
           /\ IsDigit(loc[p].req.anime_id)
           /\ hist[p].gets = 0 /\ hist[p].tried = <<>> /\ hist[p].trace = <<>>

\* get_episodes refused the identifier "1"
C13_Witness ==
  \E p \in workers :
    /\ loc[p].op = "get_episodes" /\ loc[p].req.anime_id = <<"1">>
    /\ pc[p] = "failed" /\ loc[p].status = 400
    /\ hist[p].trace = <<>>

\* C14: no VideoItem that flatten_videos builds has the empty string as its
\* title, code or url: a value that is empty in the raw data, or empty after
\* unescaping, is stored as None.
C14_NoEmptyOptionalField ==
  \A p \in workers :
    (pc[p] = "done" /\ loc[p].op = "flatten_videos") =>
      \A i \in 1 .. Len(loc[p].ret) :
        /\ loc[p].ret[i].title # JStr(<<>>)
        /\ loc[p].ret[i].code # JStr(<<>>)
        /\ loc[p].ret[i].url # JStr(<<>>)

\* page k of the log ends the listing: it gave no pair, or no identifier that
\* an earlier page of this crawl had not given
EndsListing(log, k) ==
  \/ log[k].ids = <<>>
  \/ \A i \in 1 .. Len(log[k].ids) :
       \E j \in 1 .. k - 1 : \E m \in 1 .. Len(log[j].ids) : log[j].ids[m] = log[k].ids[i]

\* the pages fetched are start_page, start_page + 1, ... and at most max_pages
\* of them; only the last page fetched can be one that ends the listing
CrawlInBounds ==
  \A p \in workers :
    loc[p].op = "adhoc" =>
      LET log == hist[p].log
          start == loc[p].req.start_page
          max == loc[p].req.max_pages
      IN /\ Len(log) <= max
         /\ \A k \in 1 .. Len(log) : log[k].page = start + k - 1
         /\ \A k \in 1 .. Len(log) - 1 : ~EndsListing(log, k)
         /\ pc[p] = "L194" =>
              /\ Len(log) < max /\ loc[p].page = start + Len(log)
              /\ \A k \in 1 .. Len(log) : ~EndsListing(log, k)

Crawling(p) == pc[p] \in {"L214", "L194"}

SlugSetServedFromMemo ==
  \A p \in workers :
    (loc[p].op = "get_slug_set" /\ pc[p] = "done") =>
      /\ slug_set_cache.cached /\ loc[p].ret = slug_set_cache.value
      /\ hist[p].path = None => (hist[p].gets = 0 /\ ~hist[p].rdDisk /\ hist[p].wrote = {})

\* once lru_cache holds a set, no step of the running process changes it
SlugSetKept == slug_set_cache.cached => slug_set_cache' = slug_set_cache

\* C16: get_slug_set computes the set of ids from the cache on its first call
\* and every later call returns that same set, whatever refreshes of the cache
\* happen in between; so the set can differ from the ids of the current cache.
C16_SlugSetNeverInvalidated == []SlugSetServedFromMemo /\ [][SlugSetKept]_vars

\* get_slug_set has just answered from lru_cache with a set that differs from
\* the ids of the cache as refreshed since
C16_Witness ==
  \E p \in workers :
    /\ loc[p].op = "get_slug_set" /\ pc[p] = "done" /\ hist[p].path = None
    /\ loc[p].ret = slug_set_cache.value
    /\ CATALOG_CACHE # <<>>
    /\ slug_set_cache.value # {CATALOG_CACHE[i].id : i \in 1 .. Len(CATALOG_CACHE)}

RetryCall(p) == loc[p].op \in {"retry", "get_episodes"} /\ loc[p].tries > 0

Count(seq, x) == Cardinality({i \in 1 .. Len(seq) : seq[i] = x})

\* fn is called at most `tries` times, a call that returns is the last one, and
\* retry raises only after `tries` failed calls, with the error of the last
RetryCallsBounded ==
  \A p \in workers :
    RetryCall(p) =>
      LET trace == hist[p].trace
          calls == Count(trace, "call")
      IN /\ calls <= loc[p].tries /\ calls = loc[p].attempt
         /\ pc[p] = "done" =>
              /\ trace[Len(trace)] = "call"
              /\ Len(hist[p].errs) = calls - 1
         /\ pc[p] \in {"L106", "failed"} =>
              /\ calls = loc[p].tries /\ Len(hist[p].errs) = calls
              /\ loc[p].last_err = hist[p].errs[calls]

\* every sleep is followed by another call of fn: a finished retry has not
\* slept last
SleepsOnlyBetweenAttempts ==
  \A p \in workers :
    (RetryCall(p) /\ pc[p] \in {"L106", "done", "failed"} /\ hist[p].trace # <<>>) =>
      hist[p].trace[Len(hist[p].trace)] = "call"

\* C17: retry calls fn at most `tries` times, returns the result of the first
\* call that succeeds without calling fn again, re-raises the error of the last
\* attempt after `tries` failures, and sleeps only between attempts: no sleep
\* follows the final failed attempt.
C17_RetrySleepsBetweenAttempts == RetryCallsBounded /\ SleepsOnlyBetweenAttempts

\* ------------------------------------------------------------- C18
\* the lines that assign CATALOG_CACHE_TS: 267 (snapshot adopted) and 272
\* (crawl stored)
Stamps(p) == pc[p] \in {"L267", "L272"} /\ pc'[p] # pc[p]

\* a stamp stores the `now` its call read at line 259, which is never ahead of
\* the clock; a call that no other call overlaps never lowers the timestamp
StampIsStartTime ==
  /\ \A p \in workers :
       Stamps(p) =>
         /\ CATALOG_CACHE_TS' = loc[p].now
         /\ CATALOG_CACHE_TS' <= clock
         /\ (hist[p].quiet => CATALOG_CACHE_TS' >= CATALOG_CACHE_TS)
  /\ (CATALOG_CACHE_TS' # CATALOG_CACHE_TS => \E p \in workers : Stamps(p))

\* C18 as claimed: last_refreshed_at (CATALOG_CACHE_TS) never decreases; in
\* any interleaving of concurrent get_cached_catalog calls, every write to
\* the timestamp stores a value greater than or equal to the one it replaces.
C18_TimestampNeverDecreases == [][CATALOG_CACHE_TS' >= CATALOG_CACHE_TS]_vars

\* C18 as amended: every write to CATALOG_CACHE_TS stores the clock value its
\* own call read at line 259, never a value ahead of the clock, and a call
\* that no other call overlaps stores a value greater than or equal to the
\* one it replaces; the stamp of a call that another call overlaps can be
\* lower than the one it replaces.
C18_StampIsCallStartTime == [][StampIsStartTime]_vars

\* two overlapping calls have both stamped, and the timestamp is that of the
\* call that started earlier: its stamp replaced the later one
C18_Witness ==
  \E p, q \in workers :
    /\ p # q
    /\ CachedCall(p) /\ CachedCall(q)
    /\ "ts" \in hist[p].wrote /\ "ts" \in hist[q].wrote
    /\ loc[p].now < loc[q].now
    /\ CATALOG_CACHE_TS = loc[p].now

\* ------------------------------------------------------------- C19
\* no get_cached_catalog call is in progress
AtRest == \A p \in workers : pc[p] \in {"idle", "done", "failed"}

\* the call of p went through lines 270-274 and has returned
Refreshed(p) == CachedCall(p) /\ pc[p] = "done" /\ hist[p].path = "crawl"

\* what a cold start would read from the file equals CATALOG_CACHE
Mirrored ==
  /\ disk.state = "list"
  /\ load_catalog_from_disk(CATALOG_JSON_PATH, disk) = CATALOG_CACHE

\* C19 as claimed: memory and durable snapshot agree at rest; whenever no
\* get_cached_catalog call is in progress, a snapshot path is configured, a
\* crawl-refresh has completed and every snapshot write succeeded, the
\* content of the snapshot equals the in-memory entries, also after
\* concurrent refreshes whose steps interleave.
C19_SnapshotMirrorsMemoryAtRest ==
  (AtRest /\ CATALOG_JSON_PATH /\ \E p \in workers : Refreshed(p)) => Mirrored

\* C19 as amended: at rest, with a path configured and every write
\* successful, the snapshot equals the in-memory entries after a
\* crawl-refresh that no other call overlapped; when every worker has just
\* completed a crawl-refresh, memory holds the result of one of these crawls
\* and the snapshot the result of one of them, not always the same one.
C19_MirrorAfterUnoverlappedRefresh ==
  (AtRest /\ CATALOG_JSON_PATH) =>
    /\ \A p \in workers :
         (Refreshed(p) /\ hist[p].quiet) => (Mirrored /\ CATALOG_CACHE = loc[p].out)
    /\ ((\A p \in workers : Refreshed(p)) =>
          /\ \E p \in workers : CATALOG_CACHE = loc[p].out
          /\ \E p \in workers :
               disk = [state |-> "list", data |-> JsonDump(loc[p].out)])

\* two overlapping crawl-refreshes have returned, and the file holds the
\* entries of one while memory holds the entries of the other
C19_Witness ==
  /\ AtRest /\ CATALOG_JSON_PATH
  /\ \E p, q \in workers :
       /\ p # q /\ Refreshed(p) /\ Refreshed(q)
       /\ loc[p].out # loc[q].out
       /\ CATALOG_CACHE = loc[p].out
       /\ disk = [state |-> "list", data |-> JsonDump(loc[q].out)]

\* ------------------------------------------------------------- C20
\* get_cached_catalog(False) has just returned its list to the handler, to
\* get_slug_set (line 277) or to fuzzy_resolve_title (line 282)
CatalogReturned(p) ==
  /\ loc[p].op \in {"list_catalog", "list_slugs", "get_slug_set", "resolve"}
  /\ ~loc[p].force
  /\ loc[p].status = 200
  /\ pc[p] = ReturnTo(loc[p])
  /\ hist[p].path # None

\* the call started with nothing in memory and nothing to load from the file
StartedEmpty(p) ==
  /\ hist[p].quiet
  /\ hist[p].cache0 = <<>>
  /\ load_catalog_from_disk(CATALOG_JSON_PATH, hist[p].disk0) = <<>>

\* C20: an empty catalog is never served from memory; after a crawl-refresh
\* that yielded zero entries, with the snapshot absent or empty, every
\* non-forced get_cached_catalog call, those of slug listing and title
\* resolution within the TTL included, crawls again instead of returning the
\* cached empty list.
C20_EmptyCatalogNeverServed ==
  \A p \in workers :
    /\ (pc[p] = "L261" => CATALOG_CACHE # <<>>)
    /\ (CatalogReturned(p) /\ hist[p].path = "memory" => loc[p].ret # <<>>)
    /\ (CatalogReturned(p) /\ StartedEmpty(p) =>
          /\ hist[p].path = "crawl"
          /\ hist[p].gets > 0
          /\ loc[p].ret = loc[p].out
          /\ CATALOG_CACHE = loc[p].out)

\* a slug listing or a title resolution made within the TTL of a refresh that
\* had found no entries crawled again
C20_Witness ==
  \E p \in workers :
    /\ loc[p].op \in {"list_slugs", "resolve"}
    /\ CatalogReturned(p) /\ StartedEmpty(p)
    /\ hist[p].ts0 > 0
    /\ Fresh(loc[p].now, hist[p].ts0)
    /\ hist[p].path = "crawl" /\ hist[p].gets > 0

====
